---- MODULE Spec2Model ----
(***************************************************************************)
(* Secure-Text-Transfer: a message relay with five HTTP handlers           *)
(* (register, publicKey, send, messages, users) over a store of User and   *)
(* Message records.  The repository holds two implementations of the same  *)
(* API: src/server.js keeps the records in MongoDB through mongoose, and   *)
(* src/unnamed/part_000 keeps them in two JSON files.  Both are modelled.  *)
(*                                                                         *)
(* Strings are TLA+ strings, a missing JSON field or header is Undefined.  *)
(* Date.now() / new Date() read the variable now, crypto.randomBytes is an *)
(* input of the registration handler drawn from Tokens.                    *)
(***************************************************************************)
EXTENDS Integers, Sequences, FiniteSets, TLC

\* ------------------------------------------------------------------ bounds
MaxMsgs == 2          \* sends accepted per run (Messages grows without bound)
MaxClock == 1         \* the clock takes the values 0..MaxClock

\* ------------------------------------------------------------- input sets
Undefined == "<undefined>"                \* JS undefined: field or header absent
Names == {"alice", "bob"}                 \* usernames that register
ProtoKeys == {"constructor"}              \* a member name of Object.prototype
Keys == {"PEM_A", "PEM_B"}
Tokens == {"t1", "t2"}                    \* values crypto.randomBytes may return
ApiKeys == {Undefined, ""} \cup Tokens    \* x-api-key header
Procs == {1, 2}                           \* requests in flight at the same time

VARIABLES
  backend,    \* "db": src/server.js; "file": src/unnamed/part_000
  usersDb,    \* the User collection, in natural (insertion) order
  msgsDb,     \* the Message collection, in natural (insertion) order
  usersFile,  \* users.json: [exists, data, ok], data the object as ordered entries
  msgFile,    \* messages.json: [exists, data, ok], data the array
  now,        \* the wall clock
  pend,       \* per request slot: the store operation a handler awaits
  last,       \* the response on its way to the client, with its request
  twin        \* a response the client keeps to compare a later one with; in
              \* the side-by-side run, the flat-file service's response to
              \* the request the MongoDB service is handling

vars == <<backend, usersDb, msgsDb, usersFile, msgFile, now, pend, last, twin>>

\* ---------------------------------------------------------------- helpers
\* JS truthiness of a string-or-undefined value: !v is true for undefined, "".
Falsy(v) == v \in {Undefined, ""}

\* JS values that are not strings
Null == [null |-> TRUE]                   \* findOne() found nothing
NoProp == [undefined |-> TRUE]            \* obj[k]: no such property
Inherited(k) == [inherited |-> k]         \* obj[k] found on Object.prototype
\* o.f for an object o: undefined when o has no property f
Field(o, f) == IF f \in DOMAIN o THEN o[f] ELSE Undefined

NoResp == [op |-> "none"]
Idle == [op |-> "idle"]

Indices(s, P(_)) == {i \in 1..Len(s) : P(s[i])}
Min(S) == CHOOSE x \in S : \A y \in S : x <= y

\* res.status(st).json(body), for request rq
Respond(rq, st, body) == [op |-> rq.op, req |-> rq, status |-> st, body |-> body]

Error(msg) == [error |-> msg]

\* the i-th smallest member of a finite set of integers
Nth(S, i) == CHOOSE x \in S : Cardinality({y \in S : y < x}) = i - 1
\* the members of S in ascending order
Ascending(S) == [i \in 1..Cardinality(S) |-> Nth(S, i)]

\* A response that lists messages: pos names, for each returned message, its
\* position in the collection it was read from (the messages themselves are
\* the body; pos tells two equal-looking messages apart).
RespondList(rq, coll, order) ==
  [op |-> rq.op, req |-> rq, status |-> 200,
   body |-> [messages |-> [i \in 1..Len(order) |-> coll[order[i]]]],
   pos |-> order]

\* =========================================================== flat-file store
\* A JSON file is [exists, data, ok].  users.json holds one object, kept here
\* as its own properties in insertion order, each [k |-> name, v |-> value];
\* messages.json holds one array.  ok is FALSE while fs.readFileSync or
\* JSON.parse of the file throws (the file cannot be opened or read).

\* readJson returns the fallback when the file does not exist and, from its
\* catch block, when reading it throws; else the file's content
readJson(file, fallback) ==
  IF ~file.exists THEN fallback
  ELSE IF ~file.ok THEN fallback
  ELSE file.data
\* variant: without the fs.existsSync test, the fallback is written every time
readJsonReset(file, fallback) == [exists |-> TRUE, data |-> fallback, ok |-> file.ok]

\* ... and creates a missing file with the fallback in it
readJsonEffect(file, fallback) ==
  IF ~file.exists THEN [exists |-> TRUE, data |-> fallback, ok |-> file.ok] ELSE file

\* fs.writeFileSync replaces the content of the file
writeJson(file, obj) == [exists |-> TRUE, data |-> obj, ok |-> file.ok]

\* obj[k] on a parsed JSON object: an own property, else a member inherited
\* from Object.prototype, else undefined
GetProp(obj, k) ==
  IF \E i \in 1..Len(obj) : obj[i].k = k
    THEN obj[CHOOSE i \in 1..Len(obj) : obj[i].k = k].v
    ELSE IF k \in ProtoKeys THEN Inherited(k) ELSE NoProp

\* obj[k] = v: replaces the value of an own property in place, else adds one
SetProp(obj, k, v) ==
  IF \E i \in 1..Len(obj) : obj[i].k = k
    THEN [i \in 1..Len(obj) |-> IF obj[i].k = k THEN [k |-> k, v |-> v] ELSE obj[i]]
    ELSE Append(obj, [k |-> k, v |-> v])

\* Object.keys(obj)
ObjectKeys(obj) == [i \in 1..Len(obj) |-> obj[i].k]

\* faulty variant of invalidApiKeyFile: only the presence of a key matters
anyApiKeyFile(apiKey, user) == Falsy(apiKey)

\* !apiKey || apiKey !== user.token
invalidApiKeyFile(apiKey, user) == Falsy(apiKey) \/ apiKey # Field(user, "token")

\* faulty variant of addressedToFile: the filter looks at the sender
addressedFromFile(m, username) == m.from = username

\* m => m.to === username
addressedToFile(m, username) == m.to = username

\* { from, to, ciphertext, encryptedKey, iv, timestamp: new Date().toISOString() }
messageFile(from, to, ciphertext, encryptedKey, iv) ==
  [from |-> from, to |-> to, ciphertext |-> ciphertext,
   encryptedKey |-> encryptedKey, iv |-> iv, timestamp |-> now]

\* POST /api/register
RegisterFile(username, publicKeyPem, randomBytes) ==
  LET rq == [op |-> "register", username |-> username, publicKeyPem |-> publicKeyPem]
      users == readJson(usersFile, <<>>)
      token == randomBytes
  IN
  /\ backend = "file" /\ last = NoResp
  /\ IF Falsy(username) \/ Falsy(publicKeyPem)
       THEN /\ last' = Respond(rq, 400, Error("username and publicKeyPem required"))
            /\ UNCHANGED usersFile
       ELSE /\ usersFile' = writeJson(usersFile, SetProp(users, username,
                 [publicKeyPem |-> publicKeyPem, token |-> token, createdAt |-> now]))
            /\ last' = Respond(rq, 200, [token |-> token])
  /\ UNCHANGED <<backend, usersDb, msgsDb, msgFile, now, pend, twin>>

\* GET /api/publicKey/:username
PublicKeyFile(username) ==
  LET rq == [op |-> "publicKey", username |-> username]
      users == readJson(usersFile, <<>>)
      u == GetProp(users, username)
  IN
  /\ backend = "file" /\ last = NoResp
  /\ usersFile' = readJsonEffect(usersFile, <<>>)
  /\ last' = IF u = NoProp
               THEN Respond(rq, 404, Error("user not found"))
               ELSE Respond(rq, 200, [publicKeyPem |-> Field(u, "publicKeyPem")])
  /\ UNCHANGED <<backend, usersDb, msgsDb, msgFile, now, pend, twin>>

\* POST /api/send
SendFile(from, to, ciphertext, encryptedKey, iv, apiKey) ==
  LET rq == [op |-> "send", from |-> from, to |-> to, ciphertext |-> ciphertext,
             encryptedKey |-> encryptedKey, iv |-> iv, apiKey |-> apiKey]
      users == readJson(usersFile, <<>>)
      user == GetProp(users, from)
      messages == readJson(msgFile, <<>>)
  IN
  /\ backend = "file" /\ last = NoResp
  /\ IF Falsy(from) \/ Falsy(to) \/ Falsy(ciphertext) \/ Falsy(encryptedKey) \/ Falsy(iv)
       THEN /\ last' = Respond(rq, 400, Error("missing fields"))
            /\ UNCHANGED <<usersFile, msgFile>>
       ELSE IF user = NoProp
       THEN /\ last' = Respond(rq, 400, Error("unknown sender"))
            /\ usersFile' = readJsonEffect(usersFile, <<>>)
            /\ UNCHANGED msgFile
       ELSE IF invalidApiKeyFile(apiKey, user)
       THEN /\ last' = Respond(rq, 401, Error("invalid api key"))
            /\ usersFile' = readJsonEffect(usersFile, <<>>)
            /\ UNCHANGED msgFile
       ELSE /\ Len(messages) < MaxMsgs
            /\ usersFile' = readJsonEffect(usersFile, <<>>)
            /\ msgFile' = writeJson(msgFile, Append(messages,
                 messageFile(from, to, ciphertext, encryptedKey, iv)))
            /\ last' = Respond(rq, 200, [ok |-> TRUE])
  /\ UNCHANGED <<backend, usersDb, msgsDb, now, pend, twin>>

\* GET /api/messages/:username
MessagesFile(username, apiKey) ==
  LET rq == [op |-> "messages", username |-> username, apiKey |-> apiKey]
      users == readJson(usersFile, <<>>)
      user == GetProp(users, username)
      all == readJson(msgFile, <<>>)
      kept == Ascending(Indices(all, LAMBDA m : addressedToFile(m, username)))
  IN
  /\ backend = "file" /\ last = NoResp
  /\ usersFile' = readJsonEffect(usersFile, <<>>)
  /\ IF user = NoProp
       THEN /\ last' = Respond(rq, 404, Error("unknown user"))
            /\ UNCHANGED msgFile
       ELSE IF invalidApiKeyFile(apiKey, user)
       THEN /\ last' = Respond(rq, 401, Error("invalid api key"))
            /\ UNCHANGED msgFile
       ELSE /\ msgFile' = readJsonEffect(msgFile, <<>>)
            /\ last' = RespondList(rq, all, kept)
  /\ UNCHANGED <<backend, usersDb, msgsDb, now, pend, twin>>

\* GET /api/users
UsersFile ==
  LET rq == [op |-> "users"]
      users == readJson(usersFile, <<>>)
  IN
  /\ backend = "file" /\ last = NoResp
  /\ usersFile' = readJsonEffect(usersFile, <<>>)
  /\ last' = Respond(rq, 200, [users |-> ObjectKeys(users)])
  /\ UNCHANGED <<backend, usersDb, msgsDb, msgFile, now, pend, twin>>

\* ============================================================ MongoDB store
\* A handler of src/server.js runs up to its first await in one step; the
\* store executes a query or a save at some later moment, and the handler's
\* continuation runs with the result.  A step below is one store operation
\* together with the synchronous code that follows it up to the next await or
\* the response.  pend[p] is the operation the handler in slot p waits for.

\* User.findOne({ username }).lean(): the first matching document, or null
findOne(coll, username) ==
  IF \E i \in 1..Len(coll) : coll[i].username = username
    THEN coll[Min({i \in 1..Len(coll) : coll[i].username = username})]
    ELSE Null

\* variant: the save written as an upsert keyed by sender and recipient
upsertOne(coll, doc) ==
  IF \E i \in 1..Len(coll) : coll[i].from = doc.from /\ coll[i].to = doc.to
    THEN [i \in 1..Len(coll) |->
            IF coll[i].from = doc.from /\ coll[i].to = doc.to THEN doc ELSE coll[i]]
    ELSE Append(coll, doc)

\* msg.save() of a new document: one insert at the end of the collection
insertOne(coll, doc) == Append(coll, doc)

\* faulty variant of uniqueIndexAllows: the collection has no unique index
noUniqueIndex(coll, doc) == TRUE

\* userSchema's unique index on username: may this document be inserted?
uniqueIndexAllows(coll, doc) == \A i \in 1..Len(coll) : coll[i].username # doc.username

\* variant: only the presence of the header is tested
missingApiKeyDb(apiKey, user) == Falsy(apiKey)

\* variant: the comparison inverted, apiKey === user.token
matchingApiKeyDb(apiKey, user) == Falsy(apiKey) \/ apiKey = user.token

\* !apiKey || apiKey !== user.token
invalidApiKeyDb(apiKey, user) == Falsy(apiKey) \/ apiKey # user.token

\* the filter { to: username }
addressedToDb(m, username) == m.to = username

\* faulty variant of messageDb: encryptedKey and iv in each other's place
messageDbSwapped(from, to, ciphertext, encryptedKey, iv) ==
  [from |-> from, to |-> to, ciphertext |-> ciphertext,
   encryptedKey |-> iv, iv |-> encryptedKey, timestamp |-> now]

\* new Message({ from, to, ciphertext, encryptedKey, iv }); the schema's default
\* sets timestamp to Date.now() when the document is constructed
messageDb(from, to, ciphertext, encryptedKey, iv) ==
  [from |-> from, to |-> to, ciphertext |-> ciphertext,
   encryptedKey |-> encryptedKey, iv |-> iv, timestamp |-> now]

\* variant: without .sort, the matching documents in natural order
unsortedFind(coll, username) ==
  {Ascending(Indices(coll, LAMBDA m : addressedToDb(m, username)))}

\* the orders .find({ to }).sort({ timestamp: 1 }) may return: the matching
\* documents by ascending timestamp; MongoDB leaves the order of documents
\* with equal sort keys unspecified
sortedFind(coll, username) ==
  LET S == Indices(coll, LAMBDA m : addressedToDb(m, username))
      n == Cardinality(S)
  IN {o \in [1..n -> S] :
        /\ \A i, j \in 1..n : i # j => o[i] # o[j]
        /\ \A i, j \in 1..n : i < j => coll[o[i]].timestamp <= coll[o[j]].timestamp}

\* Message documents saved or about to be saved
Accepted == Len(msgsDb) + Cardinality({p \in Procs : pend[p].op = "saveMsg"})

\* POST /api/register, up to `await user.save()`
RegisterDb(p, username, publicKeyPem, randomBytes) ==
  LET rq == [op |-> "register", username |-> username, publicKeyPem |-> publicKeyPem]
      existing == findOne(usersDb, username)
      token == randomBytes
  IN
  /\ backend = "db" /\ pend[p] = Idle /\ last = NoResp
  /\ IF Falsy(username) \/ Falsy(publicKeyPem)
       THEN /\ last' = Respond(rq, 400, Error("username and publicKeyPem required"))
            /\ UNCHANGED pend
       ELSE IF existing # Null
       THEN /\ last' = Respond(rq, 200, [token |-> existing.token])
            /\ UNCHANGED pend
       ELSE /\ pend' = [pend EXCEPT ![p] = [op |-> "saveUser", req |-> rq,
                 doc |-> [username |-> username, publicKeyPem |-> publicKeyPem,
                          token |-> token, createdAt |-> now]]]
            /\ UNCHANGED last
  /\ UNCHANGED <<backend, usersDb, msgsDb, usersFile, msgFile, now, twin>>

\* user.save() executes; the handler answers, or its catch block does
SaveUserDb(p) ==
  LET rq == pend[p].req
      doc == pend[p].doc
  IN
  /\ backend = "db" /\ pend[p].op = "saveUser" /\ last = NoResp
  /\ pend' = [pend EXCEPT ![p] = Idle]
  /\ IF uniqueIndexAllows(usersDb, doc)
       THEN /\ usersDb' = Append(usersDb, doc)
            /\ last' = Respond(rq, 200, [token |-> doc.token])
       ELSE /\ last' = Respond(rq, 500, Error("internal error"))
            /\ UNCHANGED usersDb
  /\ UNCHANGED <<backend, msgsDb, usersFile, msgFile, now, twin>>

\* GET /api/publicKey/:username
PublicKeyDb(p, username) ==
  LET rq == [op |-> "publicKey", username |-> username]
      u == findOne(usersDb, username)
  IN
  /\ backend = "db" /\ pend[p] = Idle /\ last = NoResp
  /\ last' = IF u = Null
               THEN Respond(rq, 404, Error("user not found"))
               ELSE Respond(rq, 200, [publicKeyPem |-> u.publicKeyPem])
  /\ UNCHANGED <<backend, usersDb, msgsDb, usersFile, msgFile, now, pend, twin>>

\* POST /api/send, up to `await msg.save()`
SendDb(p, from, to, ciphertext, encryptedKey, iv, apiKey) ==
  LET rq == [op |-> "send", from |-> from, to |-> to, ciphertext |-> ciphertext,
             encryptedKey |-> encryptedKey, iv |-> iv, apiKey |-> apiKey]
      user == findOne(usersDb, from)
  IN
  /\ backend = "db" /\ pend[p] = Idle /\ last = NoResp
  /\ IF Falsy(from) \/ Falsy(to) \/ Falsy(ciphertext) \/ Falsy(encryptedKey) \/ Falsy(iv)
       THEN /\ last' = Respond(rq, 400, Error("missing fields"))
            /\ UNCHANGED pend
       ELSE IF user = Null
       THEN /\ last' = Respond(rq, 400, Error("unknown sender"))
            /\ UNCHANGED pend
       ELSE IF invalidApiKeyDb(apiKey, user)
       THEN /\ last' = Respond(rq, 401, Error("invalid api key"))
            /\ UNCHANGED pend
       ELSE /\ Accepted < MaxMsgs
            /\ pend' = [pend EXCEPT ![p] = [op |-> "saveMsg", req |-> rq,
                 doc |-> messageDb(from, to, ciphertext, encryptedKey, iv)]]
            /\ UNCHANGED last
  /\ UNCHANGED <<backend, usersDb, msgsDb, usersFile, msgFile, now, twin>>

\* msg.save() executes and the handler answers
SaveMsgDb(p) ==
  /\ backend = "db" /\ pend[p].op = "saveMsg" /\ last = NoResp
  /\ msgsDb' = insertOne(msgsDb, pend[p].doc)
  /\ last' = Respond(pend[p].req, 200, [ok |-> TRUE])
  /\ pend' = [pend EXCEPT ![p] = Idle]
  /\ UNCHANGED <<backend, usersDb, usersFile, msgFile, now, twin>>

\* GET /api/messages/:username, up to `await Message.find(...)`
MessagesDb(p, username, apiKey) ==
  LET rq == [op |-> "messages", username |-> username, apiKey |-> apiKey]
      user == findOne(usersDb, username)
  IN
  /\ backend = "db" /\ pend[p] = Idle /\ last = NoResp
  /\ IF user = Null
       THEN /\ last' = Respond(rq, 404, Error("unknown user"))
            /\ UNCHANGED pend
       ELSE IF invalidApiKeyDb(apiKey, user)
       THEN /\ last' = Respond(rq, 401, Error("invalid api key"))
            /\ UNCHANGED pend
       ELSE /\ pend' = [pend EXCEPT ![p] = [op |-> "find", req |-> rq]]
            /\ UNCHANGED last
  /\ UNCHANGED <<backend, usersDb, msgsDb, usersFile, msgFile, now, twin>>

\* Message.find({ to }).sort({ timestamp: 1 }) executes and the handler answers
FindMsgsDb(p) ==
  /\ backend = "db" /\ pend[p].op = "find" /\ last = NoResp
  /\ \E order \in sortedFind(msgsDb, pend[p].req.username) :
       last' = RespondList(pend[p].req, msgsDb, order)
  /\ pend' = [pend EXCEPT ![p] = Idle]
  /\ UNCHANGED <<backend, usersDb, msgsDb, usersFile, msgFile, now, twin>>

\* GET /api/users
UsersDb(p) ==
  /\ backend = "db" /\ pend[p] = Idle /\ last = NoResp
  /\ last' = Respond([op |-> "users"], 200,
                     [users |-> [i \in 1..Len(usersDb) |-> usersDb[i].username]])
  /\ UNCHANGED <<backend, usersDb, msgsDb, usersFile, msgFile, now, pend, twin>>

\* ============================================================== environment
\* the client receives the response
Deliver ==
  /\ last # NoResp
  /\ last' = NoResp
  /\ UNCHANGED <<backend, usersDb, msgsDb, usersFile, msgFile, now, pend, twin>>

\* time passes
Tick ==
  /\ now < MaxClock /\ last = NoResp
  /\ now' = now + 1
  /\ UNCHANGED <<backend, usersDb, msgsDb, usersFile, msgFile, pend, last, twin>>

\* ------------------------------------------------------------ request inputs
Senders == Names \cup ProtoKeys

\* { username, publicKeyPem } bodies: valid ones, and one with each field missing
RegisterInputs ==
  {<<"alice", "PEM_A">>, <<"alice", "PEM_B">>, <<"bob", "PEM_B">>,
   <<"", "PEM_A">>, <<"alice", Undefined>>}

\* { from, to, ciphertext, encryptedKey, iv } bodies with an x-api-key: complete
\* bodies under every key, and one body with each field missing
SendInputs ==
  ({<<"alice", "bob">>, <<"bob", "alice">>, <<"constructor", "bob">>}
      \X {"c1"} \X {"k1"} \X {"iv1"} \X ApiKeys)
    \cup {<<<<Undefined, "bob">>, "c1", "k1", "iv1", "t1">>,
          <<<<"alice", "">>, "c1", "k1", "iv1", "t1">>,
          <<<<"alice", "bob">>, Undefined, "k1", "iv1", "t1">>,
          <<<<"alice", "bob">>, "c1", "", "iv1", "t1">>,
          <<<<"alice", "bob">>, "c1", "k1", Undefined, "t1">>}

Init ==
  /\ backend \in {"db", "file"}
  /\ usersDb = <<>> /\ msgsDb = <<>>
  /\ usersFile = [exists |-> FALSE, data |-> <<>>, ok |-> TRUE]
  /\ msgFile = [exists |-> FALSE, data |-> <<>>, ok |-> TRUE]
  /\ now = 0
  /\ pend = [p \in Procs |-> Idle]
  /\ last = NoResp
  /\ twin = NoResp

\* One client: each request is answered before the next is sent.
Next ==
  \/ \E r \in RegisterInputs, t \in Tokens : RegisterFile(r[1], r[2], t)
  \/ \E u \in Senders : PublicKeyFile(u)
  \/ \E s \in SendInputs : SendFile(s[1][1], s[1][2], s[2], s[3], s[4], s[5])
  \/ \E u \in Senders, k \in ApiKeys : MessagesFile(u, k)
  \/ UsersFile
  \/ \E r \in RegisterInputs, t \in Tokens : RegisterDb(1, r[1], r[2], t)
  \/ SaveUserDb(1)
  \/ \E u \in Senders : PublicKeyDb(1, u)
  \/ \E s \in SendInputs : SendDb(1, s[1][1], s[1][2], s[2], s[3], s[4], s[5])
  \/ SaveMsgDb(1)
  \/ \E u \in Senders, k \in ApiKeys : MessagesDb(1, u, k)
  \/ FindMsgsDb(1)
  \/ UsersDb(1)
  \/ Deliver
  \/ Tick

Spec == Init /\ [][Next]_vars

\* Concurrent registrations: two requests in flight in the MongoDB service,
\* whose lookups and saves interleave.  The flat-file handlers are
\* synchronous, so there each request runs from start to end on its own.
NextRegister ==
  \/ \E p \in Procs, r \in RegisterInputs, t \in Tokens : RegisterDb(p, r[1], r[2], t)
  \/ \E p \in Procs : SaveUserDb(p)
  \/ \E p \in Procs, u \in Senders : PublicKeyDb(p, u)
  \/ \E p \in Procs : UsersDb(p)
  \/ \E r \in RegisterInputs, t \in Tokens : RegisterFile(r[1], r[2], t)
  \/ \E u \in Senders : PublicKeyFile(u)
  \/ UsersFile
  \/ Deliver
  \/ Tick

SpecRegister == Init /\ [][NextRegister]_vars

\* what a client can see of a response, but for the values of generated
\* tokens and timestamps
Observed(r) ==
  [status |-> r.status,
   body |-> IF "token" \in DOMAIN r.body THEN [token |-> "generated"]
            ELSE IF "messages" \in DOMAIN r.body
              THEN [messages |-> [i \in 1..Len(r.body.messages) |->
                      [r.body.messages[i] EXCEPT !.timestamp = "generated"]]]
            ELSE r.body]

\* Side by side: every request goes to the flat-file service and then, with
\* the same body, header, clock and random bytes, to the MongoDB service.
\* backend names the service whose turn it is.
Forward ==
  /\ backend = "file" /\ last # NoResp
  /\ twin' = last /\ last' = NoResp /\ backend' = "db"
  /\ UNCHANGED <<usersDb, msgsDb, usersFile, msgFile, now, pend>>

\* the client compares the two answers and goes on while they agree
Return ==
  /\ backend = "db" /\ last # NoResp
  /\ Observed(last) = Observed(twin)
  /\ twin' = NoResp /\ last' = NoResp /\ backend' = "file"
  /\ UNCHANGED <<usersDb, msgsDb, usersFile, msgFile, now, pend>>

InitBoth == Init /\ backend = "file"

NextBoth ==
  \/ \E r \in RegisterInputs, t \in Tokens : RegisterFile(r[1], r[2], t)
  \/ \E u \in Senders : PublicKeyFile(u)
  \/ \E s \in SendInputs : SendFile(s[1][1], s[1][2], s[2], s[3], s[4], s[5])
  \/ \E u \in Senders, k \in ApiKeys : MessagesFile(u, k)
  \/ UsersFile
  \/ Forward
  \/ /\ twin.op = "register"
     /\ \E t \in Tokens :
          /\ twin.status = 200 => t = twin.body.token
          /\ RegisterDb(1, twin.req.username, twin.req.publicKeyPem, t)
  \/ SaveUserDb(1)
  \/ twin.op = "publicKey" /\ PublicKeyDb(1, twin.req.username)
  \/ /\ twin.op = "send"
     /\ SendDb(1, twin.req.from, twin.req.to, twin.req.ciphertext,
               twin.req.encryptedKey, twin.req.iv, twin.req.apiKey)
  \/ SaveMsgDb(1)
  \/ twin.op = "messages" /\ MessagesDb(1, twin.req.username, twin.req.apiKey)
  \/ FindMsgsDb(1)
  \/ twin.op = "users" /\ UsersDb(1)
  \/ Return
  \/ backend = "file" /\ Tick

SpecBoth == InitBoth /\ [][NextBoth]_vars

\* ======================================================== views of the store
\* the User records of the running service, whichever store holds them
UserRecords ==
  IF backend = "db" THEN usersDb
  ELSE [i \in 1..Len(usersFile.data) |->
          [username |-> usersFile.data[i].k,
           publicKeyPem |-> usersFile.data[i].v.publicKeyPem,
           token |-> usersFile.data[i].v.token,
           createdAt |-> usersFile.data[i].v.createdAt]]

\* the Message records of the running service
MessageRecords == IF backend = "db" THEN msgsDb ELSE msgFile.data

RecordsOf(U) == {i \in 1..Len(UserRecords) : UserRecords[i].username = U}
Registered(U) == RecordsOf(U) # {}
UserOf(U) == UserRecords[CHOOSE i \in RecordsOf(U) : TRUE]

\* this step answers a request
Answered == last = NoResp /\ last' # NoResp

\* a send request with all five body fields present
Complete(rq) ==
  ~(Falsy(rq.from) \/ Falsy(rq.to) \/ Falsy(rq.ciphertext)
      \/ Falsy(rq.encryptedKey) \/ Falsy(rq.iv))

\* ==================================================================== claims

\* C1: registration is idempotent by username.  Every registration answered
\* 200 returns the token stored for the username; when the username was
\* registered before, that is the token stored by (and returned to) the
\* earlier registration; and afterwards the store holds exactly one User
\* record for the username.
C1_IdempotentRegistration ==
  [][\A U \in Names :
       (Answered /\ last'.op = "register" /\ last'.status = 200
          /\ last'.req.username = U)
       => /\ Cardinality(RecordsOf(U))' = 1
          /\ last'.body.token = UserOf(U)'.token
          /\ Registered(U) => last'.body.token = UserOf(U).token]_vars

\* C3: auth gate.  A complete send with from = U, or a fetch of U's messages,
\* for a registered U and an x-api-key that is absent, empty or any string
\* other than U's stored token, is answered 401, appends no Message and
\* returns no messages.
C3_AuthGate ==
  [][\A U \in Names :
       (/\ Answered
        /\ \/ last'.op = "send" /\ Complete(last'.req) /\ last'.req.from = U
           \/ last'.op = "messages" /\ last'.req.username = U
        /\ Registered(U)
        /\ last'.req.apiKey # UserOf(U).token)
       => /\ last'.status = 401
          /\ MessageRecords' = MessageRecords
          /\ "messages" \notin DOMAIN last'.body]_vars

\* C3 witness: a fetch for a registered user who has a message waiting was
\* refused for presenting another string than the token.
C3_Witness ==
  /\ last.op = "messages" /\ last.status = 401
  /\ Registered(last.req.username)
  /\ last.req.apiKey \in Tokens
  /\ \E i \in 1..Len(MessageRecords) : MessageRecords[i].to = last.req.username

\* C4: tokens are never rotated and never expire.  The token stored for a
\* registered username (the one registration returned) is the same after
\* every step, and a send or fetch presenting it is not refused with 401.
C4_TokenStaysValid ==
  [][\A U \in Names :
       Registered(U) =>
         /\ Registered(U)' /\ UserOf(U)'.token = UserOf(U).token
         /\ (/\ Answered
             /\ \/ last'.op = "send" /\ Complete(last'.req) /\ last'.req.from = U
                \/ last'.op = "messages" /\ last'.req.username = U
             /\ last'.req.apiKey = UserOf(U).token)
            => last'.status = 200]_vars

\* C5: recipient isolation.  Every message in the list a successful fetch
\* for user A returns has to = A.
C5_RecipientIsolation ==
  (last.op = "messages" /\ last.status = 200)
    => \A i \in 1..Len(last.body.messages) :
         last.body.messages[i].to = last.req.username

\* C5 witness: a fetch returned a message while the store also held a message
\* addressed to somebody else.
C5_Witness ==
  /\ last.op = "messages" /\ last.status = 200
  /\ Len(last.body.messages) > 0
  /\ \E i \in 1..Len(MessageRecords) : MessageRecords[i].to # last.req.username

\* C6: ordering.  Requests are answered one at a time here, so the position of
\* a message in the collection is the order in which it was sent; a fetch
\* returns the recipient's messages in that order, also when their
\* timestamps are equal.
C6_SendOrder ==
  (last.op = "messages" /\ last.status = 200)
    => \A i, j \in 1..Len(last.pos) : i < j => last.pos[i] < last.pos[j]

\* C7: unknown-sender rejection.  A complete send whose from names no
\* registered User is answered 400 whatever the x-api-key, and appends nothing.
C7_UnknownSender ==
  [][(/\ Answered /\ last'.op = "send" /\ Complete(last'.req)
      /\ ~Registered(last'.req.from))
     => (last'.status = 400 /\ MessageRecords' = MessageRecords)]_vars

\* C8: registering a username that already has a User record mutates
\* nothing: publicKeyPem, token and createdAt stay as the first registration
\* stored them.
C8_ReRegisterMutatesNothing ==
  [][\A U \in Names :
       (/\ Answered /\ last'.op = "register" /\ last'.req.username = U
        /\ Registered(U))
       => UserRecords' = UserRecords]_vars

\* C9: the Messages collection is append-only.  Every step keeps the stored
\* messages as they are; the collection changes only in a step that answers
\* a send with {ok: true}, which adds exactly one Message whose from, to,
\* ciphertext, encryptedKey and iv are the request's.
C9_AppendOnly ==
  [][/\ Len(MessageRecords') >= Len(MessageRecords)
     /\ \A i \in 1..Len(MessageRecords) : MessageRecords'[i] = MessageRecords[i]
     /\ MessageRecords' # MessageRecords =>
          /\ Answered /\ last'.op = "send" /\ last'.status = 200
          /\ last'.body = [ok |-> TRUE]
          /\ Len(MessageRecords') = Len(MessageRecords) + 1
          /\ LET m == MessageRecords'[Len(MessageRecords')]
                 rq == last'.req
             IN /\ m.from = rq.from /\ m.to = rq.to
                /\ m.ciphertext = rq.ciphertext
                /\ m.encryptedKey = rq.encryptedKey /\ m.iv = rq.iv
     /\ (Answered /\ last'.op = "send" /\ last'.status = 200)
          => Len(MessageRecords') = Len(MessageRecords) + 1]_vars

\* C9 witness: a second message was accepted and stored behind the first.
C9_Witness ==
  /\ last.op = "send" /\ last.status = 200
  /\ Len(MessageRecords) = 2
  /\ MessageRecords[1].from # MessageRecords[2].from

\* C2: under any interleaving of concurrent registrations, no state of the
\* store holds two User records with the same username.
C2_UniqueUsernames == \A U \in Names : Cardinality(RecordsOf(U)) <= 1

\* C2 witness: two registrations of one username raced; both found no record,
\* one saved its own, and the save of the other was refused.
C2_Witness ==
  /\ last.op = "register" /\ last.status = 500
  /\ Registered(last.req.username)
  /\ UserOf(last.req.username).publicKeyPem # last.req.publicKeyPem

\* C10: the flat-file service and the MongoDB service are observationally
\* equivalent: given the same requests they answer with the same status
\* codes and the same bodies, up to the values of tokens and timestamps.
C10_SameResponses ==
  (backend = "db" /\ last # NoResp /\ twin # NoResp)
    => Observed(last) = Observed(twin)
\* ------------------------------------------------------- a client that keeps
\* One client, as in Spec, that sets a response aside (twin) and goes on:
\* the acknowledgement of a send whose recipient names no User, with the
\* place the message took in the collection, or the list of a fetch.

ClientRegisterInputs == {<<"alice", "PEM_A">>, <<"bob", "PEM_B">>}

ClientSendInputs ==
  {<<"alice", "bob">>, <<"bob", "alice">>} \X {"c1"} \X {"k1"} \X {"iv1"} \X Tokens

KeepSend ==
  /\ last.op = "send" /\ last.status = 200 /\ ~Registered(last.req.to)
  /\ twin' = [op |-> "send", to |-> last.req.to, pos |-> Len(MessageRecords)]
  /\ last' = NoResp
  /\ UNCHANGED <<backend, usersDb, msgsDb, usersFile, msgFile, now, pend>>

KeepFetch ==
  /\ last.op = "messages" /\ last.status = 200
  /\ twin' = [op |-> "messages", username |-> last.req.username, pos |-> last.pos]
  /\ last' = NoResp
  /\ UNCHANGED <<backend, usersDb, msgsDb, usersFile, msgFile, now, pend>>

NextClient ==
  \/ \E r \in ClientRegisterInputs, t \in Tokens : RegisterFile(r[1], r[2], t)
  \/ \E s \in ClientSendInputs : SendFile(s[1][1], s[1][2], s[2], s[3], s[4], s[5])
  \/ \E u \in Names, k \in Tokens : MessagesFile(u, k)
  \/ \E r \in ClientRegisterInputs, t \in Tokens : RegisterDb(1, r[1], r[2], t)
  \/ SaveUserDb(1)
  \/ \E s \in ClientSendInputs : SendDb(1, s[1][1], s[1][2], s[2], s[3], s[4], s[5])
  \/ SaveMsgDb(1)
  \/ \E u \in Names, k \in Tokens : MessagesDb(1, u, k)
  \/ FindMsgsDb(1)
  \/ KeepSend
  \/ KeepFetch
  \/ Deliver
  \/ Tick

SpecClient == Init /\ [][NextClient]_vars

\* C11, as the services behave: a complete send from a registered sender
\* under the sender's token, to a username that names no User, is answered
\* 200 {ok: true} and the message is stored; and a fetch for a username that
\* names no User is never answered with messages.  So the message is
\* returned by no fetch for as long as its recipient stays unregistered.
C11_UnreadWhileUnregistered ==
  [][/\ (/\ Answered /\ last'.op = "send" /\ Complete(last'.req)
         /\ Registered(last'.req.from)
         /\ last'.req.apiKey = UserOf(last'.req.from).token
         /\ ~Registered(last'.req.to))
          => /\ last'.status = 200 /\ last'.body = [ok |-> TRUE]
             /\ Len(MessageRecords') = Len(MessageRecords) + 1
             /\ MessageRecords'[Len(MessageRecords')].to = last'.req.to
             /\ MessageRecords'[Len(MessageRecords')].from = last'.req.from
     /\ (Answered /\ last'.op = "messages" /\ ~Registered(last'.req.username))
          => /\ last'.status # 200
             /\ "messages" \notin DOMAIN last'.body]_vars

\* C11 witness: a send to a username that names no User has been
\* acknowledged and its message stored, and the client keeps the
\* acknowledgement of an earlier one.
C11_Witness ==
  /\ last.op = "send" /\ last.status = 200 /\ ~Registered(last.req.to)
  /\ Len(MessageRecords) = 2
  /\ MessageRecords[2].to = last.req.to
  /\ twin.op = "send" /\ twin.pos = 1

\* C11 as stated: a message accepted while its recipient named no User is
\* returned by no fetch in any later state.
C11_NeverReturned ==
  ~(/\ twin.op = "send"
    /\ last.op = "messages" /\ last.status = 200
    /\ \E i \in 1..Len(last.pos) : last.pos[i] = twin.pos)

\* C12: fetch is complete and does not consume.  The list of every fetch
\* answered 200 for U holds every stored message addressed to U (each send
\* answered {ok: true} stored one, and none is ever removed), and two fetches
\* answered 200 for U with no successful send to U between them (so of equal
\* length) return the same list: the same documents in the same places.
C12_CompleteAndRepeatable ==
  (last.op = "messages" /\ last.status = 200) =>
    /\ {last.pos[i] : i \in 1..Len(last.pos)}
         = {i \in 1..Len(MessageRecords) : MessageRecords[i].to = last.req.username}
    /\ (/\ twin.op = "messages" /\ twin.username = last.req.username
        /\ Len(twin.pos) = Len(last.pos))
         => twin.pos = last.pos

\* ------------------------------------------------------ requests in flight
\* Registrations, sends and fetches in flight together: in the MongoDB
\* service the lookups, saves and finds of two requests interleave, and the
\* clock may advance between the construction of a document and its save.
\* The flat-file handlers are synchronous: each runs from start to end.

NextFlight ==
  \/ \E p \in Procs, r \in ClientRegisterInputs, t \in Tokens :
       RegisterDb(p, r[1], r[2], t)
  \/ \E p \in Procs : SaveUserDb(p)
  \/ \E p \in Procs, s \in ClientSendInputs :
       SendDb(p, s[1][1], s[1][2], s[2], s[3], s[4], s[5])
  \/ \E p \in Procs : SaveMsgDb(p)
  \/ \E p \in Procs, u \in Names, k \in Tokens : MessagesDb(p, u, k)
  \/ \E p \in Procs : FindMsgsDb(p)
  \/ \E r \in ClientRegisterInputs, t \in Tokens : RegisterFile(r[1], r[2], t)
  \/ \E s \in ClientSendInputs : SendFile(s[1][1], s[1][2], s[2], s[3], s[4], s[5])
  \/ \E u \in Names, k \in Tokens : MessagesFile(u, k)
  \/ Deliver
  \/ Tick

SpecFlight == Init /\ [][NextFlight]_vars

\* C13: every request answered 400, 401, 404 or 500 leaves the User and the
\* Message records exactly as they were; and a request writes at most once:
\* the records change only in the step that answers the request, which
\* changes one collection by one record.
C13_ErrorsLeaveStore ==
  [][/\ (Answered /\ last'.status \in {400, 401, 404, 500})
          => UserRecords' = UserRecords /\ MessageRecords' = MessageRecords
     /\ ~Answered
          => UserRecords' = UserRecords /\ MessageRecords' = MessageRecords
     /\ UserRecords' = UserRecords \/ MessageRecords' = MessageRecords
     /\ Len(UserRecords') <= Len(UserRecords) + 1
     /\ Len(MessageRecords') <= Len(MessageRecords) + 1]_vars

\* C13 witness: with a message stored, the save of a registration that lost
\* the race for its username was refused and the request answered 500.
C13_Witness ==
  /\ last.op = "register" /\ last.status = 500
  /\ Len(UserRecords) >= 1 /\ Len(MessageRecords) >= 1

\* C15: the list of every fetch answered 200 is in non-decreasing order of
\* timestamp, however the lookups and saves of concurrent sends interleave.
C15_TimestampOrder ==
  (last.op = "messages" /\ last.status = 200) =>
    \A i, j \in 1..Len(last.body.messages) :
      i < j => last.body.messages[i].timestamp <= last.body.messages[j].timestamp

\* C15 witness: of two sends in flight together the later constructed was
\* saved first, and the fetch lists the two by timestamp, not by place.
C15_Witness ==
  /\ last.op = "messages" /\ last.status = 200
  /\ last.pos = <<2, 1>>
  /\ last.body.messages[1].timestamp < last.body.messages[2].timestamp

\* C18: no acknowledged message is lost under concurrent sends.  Every step
\* keeps each stored Message in its place, and every step that answers a
\* send with {ok: true} adds exactly one Message, the request's own; so once
\* all requests are answered the collection holds one record per
\* acknowledgement.
C18_NoLostMessage ==
  [][/\ Len(MessageRecords') >= Len(MessageRecords)
     /\ \A i \in 1..Len(MessageRecords) : MessageRecords'[i] = MessageRecords[i]
     /\ (Answered /\ last'.op = "send" /\ last'.body = [ok |-> TRUE])
          => /\ Len(MessageRecords') = Len(MessageRecords) + 1
             /\ \E t \in 0..now :
                  MessageRecords'[Len(MessageRecords')]
                    = [from |-> last'.req.from, to |-> last'.req.to,
                       ciphertext |-> last'.req.ciphertext,
                       encryptedKey |-> last'.req.encryptedKey,
                       iv |-> last'.req.iv, timestamp |-> t]]_vars

\* C18 witness: two sends with the same sender and recipient were in flight
\* together, both are acknowledged and both messages are stored.
C18_Witness ==
  /\ last.op = "send" /\ last.status = 200
  /\ Len(MessageRecords) = 2
  /\ MessageRecords[1].from = MessageRecords[2].from
  /\ MessageRecords[1].to = MessageRecords[2].to
  /\ MessageRecords[2].timestamp < MessageRecords[1].timestamp

\* ------------------------------------------------------------ store faults
\* The flat-file service with reads that fail: from some moment on, reading
\* users.json or messages.json throws (fs.readFileSync or JSON.parse), until
\* reading works again.  The content on disk stays what it was.

UsersReadFails ==
  /\ backend = "file" /\ last = NoResp
  /\ usersFile.exists /\ usersFile.ok
  /\ usersFile' = [usersFile EXCEPT !.ok = FALSE]
  /\ UNCHANGED <<backend, usersDb, msgsDb, msgFile, now, pend, last, twin>>

MessagesReadFails ==
  /\ backend = "file" /\ last = NoResp
  /\ msgFile.exists /\ msgFile.ok
  /\ msgFile' = [msgFile EXCEPT !.ok = FALSE]
  /\ UNCHANGED <<backend, usersDb, msgsDb, usersFile, now, pend, last, twin>>

ReadsWork ==
  /\ backend = "file" /\ last = NoResp
  /\ ~usersFile.ok \/ ~msgFile.ok
  /\ usersFile' = [usersFile EXCEPT !.ok = TRUE]
  /\ msgFile' = [msgFile EXCEPT !.ok = TRUE]
  /\ UNCHANGED <<backend, usersDb, msgsDb, now, pend, last, twin>>

InitFault == Init /\ backend = "file"

NextFault ==
  \/ \E r \in ClientRegisterInputs, t \in Tokens : RegisterFile(r[1], r[2], t)
  \/ \E u \in Names : PublicKeyFile(u)
  \/ \E s \in ClientSendInputs : SendFile(s[1][1], s[1][2], s[2], s[3], s[4], s[5])
  \/ \E u \in Names, k \in Tokens : MessagesFile(u, k)
  \/ UsersFile
  \/ UsersReadFails
  \/ MessagesReadFails
  \/ ReadsWork
  \/ Deliver
  \/ Tick

SpecFault == InitFault /\ [][NextFault]_vars

\* the handler that produced response r called readJson on a file whose
\* read throws: users.json is read by every handler once the body is
\* validated, messages.json by a send and a fetch that pass the key check
ReadFailed(r) ==
  \/ /\ usersFile.exists /\ ~usersFile.ok
     /\ r.op = "register" => ~(Falsy(r.req.username) \/ Falsy(r.req.publicKeyPem))
     /\ r.op = "send" => Complete(r.req)
  \/ /\ msgFile.exists /\ ~msgFile.ok
     /\ r.op \in {"send", "messages"} /\ r.status = 200

\* C14: when a store read fails during a handler, the request is answered
\* 500 with { error } and the store is not modified; and a failed read is
\* never taken for an empty store, so no write discards existing records:
\* every registered username stays registered and every stored message stays.
C14_StoreFailure ==
  [][/\ (Answered /\ ReadFailed(last'))
          => /\ last'.status = 500 /\ DOMAIN last'.body = {"error"}
             /\ UserRecords' = UserRecords /\ MessageRecords' = MessageRecords
     /\ \A U \in Names : Registered(U) => Registered(U)'
     /\ \A i \in 1..Len(MessageRecords) :
          i <= Len(MessageRecords') /\ MessageRecords'[i] = MessageRecords[i]]_vars

\* C16: sender authenticity.  In every state each stored Message has a from
\* that names an existing User; and a Message is only ever appended by the
\* step that answers a send whose from is the Message's and whose x-api-key
\* equals the token stored for that User when the request is handled.
C16_SenderAuthentic ==
  [][/\ \A i \in 1..Len(MessageRecords) : Registered(MessageRecords[i].from)
     /\ Len(MessageRecords') > Len(MessageRecords) =>
          /\ Answered /\ last'.op = "send"
          /\ Len(MessageRecords') = Len(MessageRecords) + 1
          /\ last'.req.from = MessageRecords'[Len(MessageRecords')].from
          /\ Registered(last'.req.from)
          /\ last'.req.apiKey = UserOf(last'.req.from).token]_vars

\* C16 witness: two users hold different tokens and a message of one of them
\* was stored under its sender's token.
C16_Witness ==
  /\ last.op = "send" /\ last.status = 200
  /\ Len(MessageRecords) >= 1
  /\ Registered("alice") /\ Registered("bob")
  /\ UserOf("alice").token # UserOf("bob").token
  /\ last.req.apiKey = UserOf(last.req.from).token

\* C17: under any interleaving of concurrent registrations of one username,
\* every registration answered 200 carries the token of the single User
\* record stored for the username, and the token stored for a username
\* never changes: so all the requests answered 200 carry the same token.
C17_OneTokenPerUsername ==
  [][\A U \in Names :
       /\ (/\ Answered /\ last'.op = "register" /\ last'.status = 200
           /\ last'.req.username = U)
            => /\ Cardinality(RecordsOf(U)') = 1
               /\ last'.body.token = UserOf(U)'.token
       /\ Registered(U) => UserOf(U)'.token = UserOf(U).token]_vars

====
